---------------------------- MODULE Spec2Model ----------------------------
(***************************************************************************)
(* Charity Prospector (src/app.py): the search run that qualifies          *)
(* organizations, and the pure functions it is built from.                 *)
(*                                                                         *)
(* Conventions of the model                                                *)
(*   - An optional value (a dict key that may be missing, a JSON null, a   *)
(*     parse that may raise ValueError) is a sequence: <<>> when absent,   *)
(*     <<v>> when present.                                                 *)
(*   - Element text is a string; "" stands for both None and "" (the code  *)
(*     only tests its truth value).                                        *)
(*   - Python floats are integers here: every amount of the model is a     *)
(*     whole number of dollars.                                            *)
(*   - An element tag is the sequence of the pieces tag.split('}') gives:  *)
(*     <<"{uri", "Local">> for a namespace-qualified tag, <<"Local">>      *)
(*     for a bare one.                                                     *)
(***************************************************************************)
EXTENDS Integers, Sequences, FiniteSets, TLC

VARIABLES
    cfg,          \* sidebar parameters of the run (lines 595-609), read-only
    pc,           \* position of the run inside the search handler
    kw_idx,       \* index of the current keyword (0-based, as enumerate gives)
    page,         \* current page of the current keyword (0-based)
    norgs,        \* len(orgs) of the page being iterated
    oi,           \* number of orgs of the page already taken by the for loop
    seen_eins,    \* set of EINs already started (line 664)
    qualifying,   \* the result list (line 649)
    api_errors,   \* search error counter (line 665)
    org,          \* locals of the organization of the current loop iteration
    trace,        \* stages run in the current loop iteration, with pass/fail
    log,          \* last line add_log wrote in the current loop iteration
    lastReq,      \* network request issued by the last step ("none" if none)
    fetched,      \* number of detail fetches issued so far, per EIN
    warned,       \* the too-many-API-errors warning was logged (line 691)
    searches,     \* history of the search calls of the run (line 686)
    net,          \* the memoized fetchers: their cache and their last call
    call          \* a call of a pure function: its name, argument and result

vars == <<cfg, pc, kw_idx, page, norgs, oi, seen_eins, qualifying, api_errors,
          org, trace, log, lastReq, fetched, warned, searches, net, call>>

loopVars == <<cfg, pc, kw_idx, page, norgs, oi, seen_eins, qualifying,
              api_errors, org, trace, log, lastReq, fetched, warned, searches>>

runVars == <<cfg, pc, kw_idx, page, norgs, oi, seen_eins, qualifying,
             api_errors, org, trace, log, lastReq, fetched, warned, searches,
             net>>

(***************************************************************************)
(* Bounds of the model.                                                    *)
(***************************************************************************)
NumEins == 2          \* distinct EINs the search endpoint can return
MaxOrgsPerPage == 2   \* organizations on one search page
NumKeywords == 11     \* keywords kept of BROAD_SEARCH_KEYWORDS
MaxItems == 3         \* items of a generated document
MaxFilings == 2       \* filings of a generated detail record
MaxOfficers == 5      \* officers handed to filter_fundraising_contacts

(***************************************************************************)
(* Optional values and text.                                               *)
(***************************************************************************)
None == <<>>
Some(v) == <<v>>

\* Python truth value of an element text / a string: None and "" are falsy.
Truthy(text) == text # ""

\* Python truth value of an optional JSON number: missing, null and 0 are falsy.
TruthyNum(x) == x # None /\ x[1] # 0

\* str.strip(), tabulated over the texts of the model.
Strip(text) ==
    CASE text = " " -> ""
      [] text = " Acme Fundraising " -> "Acme Fundraising"
      [] OTHER -> text

\* float(text): Some(value), or None for ValueError. Tabulated over the
\* texts of the model; float() accepts surrounding blanks.
ParseFloat(text) ==
    CASE text = "0" -> Some(0)
      [] text = "5" -> Some(5)
      [] text = "7" -> Some(7)
      [] text = "9" -> Some(9)
      [] text = "29" -> Some(29)
      [] text = "30" -> Some(30)
      [] text = "40" -> Some(40)
      [] text = "400000" -> Some(400000)
      [] text = "500000" -> Some(500000)
      [] text = " 600000 " -> Some(600000)
      [] text = "600000" -> Some(600000)
      [] text = "1999999" -> Some(1999999)
      [] text = "2000000" -> Some(2000000)
      [] text = "3000000" -> Some(3000000)
      [] OTHER -> None

(***************************************************************************)
(* Documents. xml_content is what fetch_xml returns: nothing (None or      *)
(* empty bytes), bytes ET.fromstring rejects, or a tree. A tree is the     *)
(* sequence of its elements in document order (root.iter()); parent is     *)
(* the index of the parent element, 0 for the root.                        *)
(***************************************************************************)
El(tag, text, parent) == [tag |-> tag, text |-> text, parent |-> parent]

NoContent == [kind |-> "none", nodes |-> <<>>]
Malformed == [kind |-> "malformed", nodes |-> <<>>]
Xml(nodes) == [kind |-> "xml", nodes |-> nodes]

\* tag.split('}')[-1] if '}' in tag else tag
LocalName(tag) == tag[Len(tag)]

\* entry.iter(): the element and its descendants, in document order.
RECURSIVE InSubtree(_, _, _)
InSubtree(nodes, entry, j) ==
    IF j = entry THEN TRUE
    ELSE IF j < entry \/ nodes[j].parent = 0 THEN FALSE
    ELSE InSubtree(nodes, entry, nodes[j].parent)

Iter(nodes, entry) ==
    SelectSeq([k \in 1..Len(nodes) |-> k],
              LAMBDA j: InSubtree(nodes, entry, j))

\* 'Total' in ptag, tabulated over the tags of the model.
ContainsTotal(ptag) ==
    ptag \in {"TotalFunctionalExpensesGrp", "CYTotalFundraisingExpenseAmt",
              "TotalFundrsngExpCurrentYrAmt", "TotalProfFundrsngExpCYAmt"}

(***************************************************************************)
(* Detail records. org_data is what get_org_details returns: nothing       *)
(* (None, or an empty object), or an object that may hold the key          *)
(* "filings_with_data" and an "organization" with "latest_object_id".      *)
(***************************************************************************)
NoData == [kind |-> "none", has_filings |-> FALSE, filings |-> <<>>,
           latest_object_id |-> None]

OrgData(has_filings, filings, object_id) ==
    [kind |-> "dict", has_filings |-> has_filings, filings |-> filings,
     latest_object_id |-> object_id]

Filing(totrevenue, totrevnue, totrcptperbks, totfuncexpns) ==
    [totrevenue |-> totrevenue, totrevnue |-> totrevnue,
     totrcptperbks |-> totrcptperbks, totfuncexpns |-> totfuncexpns]

\* a or b, on optional numbers read with dict.get: the first operand when
\* it is truthy, the second otherwise.
OrNum(a, b) == IF TruthyNum(a) THEN a ELSE b

\* filing.get("totrevenue") or filing.get("totrevnue")
\*     or filing.get("totrcptperbks") or 0, then revenue or 0   (lines 119, 121)
RevenueOf(filing) ==
    LET r == OrNum(filing.totrevenue,
                   OrNum(filing.totrevnue,
                         OrNum(filing.totrcptperbks, Some(0))))
    IN  OrNum(r, Some(0))[1]

\* filing.get("totfuncexpns", 0) or 0   (line 120)
TotalExpensesOf(filing) == OrNum(filing.totfuncexpns, Some(0))[1]

RevenueResult(matched, revenue, total_expenses) ==
    [matched |-> matched, revenue |-> revenue, total_expenses |-> total_expenses]

\* Mutant: the range test excludes its bounds.
check_revenue_Exclusive(org_data, min_rev, max_rev) ==
    IF org_data.kind = "none" \/ ~org_data.has_filings
    THEN RevenueResult(FALSE, 0, 0)
    ELSE IF org_data.filings = <<>>
    THEN RevenueResult(FALSE, 0, 0)
    ELSE LET filing == org_data.filings[1]
             revenue == RevenueOf(filing)
             total_expenses == TotalExpensesOf(filing)
         IN  IF min_rev < revenue /\ revenue < max_rev
             THEN RevenueResult(TRUE, revenue, total_expenses)
             ELSE RevenueResult(FALSE, revenue, total_expenses)

check_revenue(org_data, min_rev, max_rev) ==
    IF org_data.kind = "none" \/ ~org_data.has_filings
    THEN RevenueResult(FALSE, 0, 0)
    ELSE IF org_data.filings = <<>>
    THEN RevenueResult(FALSE, 0, 0)
    ELSE LET filing == org_data.filings[1]
             revenue == RevenueOf(filing)
             total_expenses == TotalExpensesOf(filing)
         IN  IF min_rev <= revenue /\ revenue <= max_rev
             THEN RevenueResult(TRUE, revenue, total_expenses)
             ELSE RevenueResult(FALSE, revenue, total_expenses)

\* The download URL is determined by the object id: Some(id), or None when
\* the id is missing, null, 0 or "".
get_xml_url(org_data) ==
    IF TruthyNum(org_data.latest_object_id) THEN org_data.latest_object_id
    ELSE None

(***************************************************************************)
(* get_fundraising_expense_from_xml (lines 128-156).                       *)
(***************************************************************************)
TotalFundraisingTags == {"CYTotalFundraisingExpenseAmt", "TotalFundrsngExpCurrentYrAmt"}

\* The value an element gives when the loop reaches it: Some(float(text)),
\* or None when the text is empty or float() raises ValueError.
ElemValue(el) == IF Truthy(el.text) THEN ParseFloat(el.text) ELSE None

\* The first element from index i on with that tag and a text that parses.
RECURSIVE FirstParseable(_, _, _)
FirstParseable(nodes, tag, i) ==
    IF i > Len(nodes) THEN None
    ELSE IF LocalName(nodes[i].tag) = tag /\ ElemValue(nodes[i]) # None
    THEN ElemValue(nodes[i])
    ELSE FirstParseable(nodes, tag, i + 1)

\* Mutant: one pass per candidate, in priority order.
FirstTotalFundraising_Priority(nodes, i) ==
    LET cy == FirstParseable(nodes, "CYTotalFundraisingExpenseAmt", i)
    IN  IF cy # None THEN cy
        ELSE FirstParseable(nodes, "TotalFundrsngExpCurrentYrAmt", i)

\* First loop (lines 133-140): every element in document order; the first
\* whose tag is one of the two names and whose text parses is returned.
RECURSIVE FirstTotalFundraising(_, _)
FirstTotalFundraising(nodes, i) ==
    IF i > Len(nodes) THEN None
    ELSE IF LocalName(nodes[i].tag) \in TotalFundraisingTags
            /\ ElemValue(nodes[i]) # None
    THEN ElemValue(nodes[i])
    ELSE FirstTotalFundraising(nodes, i + 1)

\* Second loop (lines 141-153): every FundraisingAmt element in document
\* order; the element is a child of exactly one p, its parent.
RECURSIVE FirstFundraisingAmt(_, _)
FirstFundraisingAmt(nodes, i) ==
    IF i > Len(nodes) THEN None
    ELSE IF LocalName(nodes[i].tag) = "FundraisingAmt"
            /\ nodes[i].parent # 0
            /\ ContainsTotal(LocalName(nodes[nodes[i].parent].tag))
            /\ ElemValue(nodes[i]) # None
    THEN ElemValue(nodes[i])
    ELSE FirstFundraisingAmt(nodes, i + 1)

get_fundraising_expense_from_xml(xml_content) ==
    IF xml_content.kind = "none" THEN 0
    ELSE IF xml_content.kind = "malformed" THEN 0
    ELSE LET first == FirstTotalFundraising(xml_content.nodes, 1)
             second == FirstFundraisingAmt(xml_content.nodes, 1)
         IN  IF first # None THEN first[1]
             ELSE IF second # None THEN second[1]
             ELSE 0

(***************************************************************************)
(* parse_schedule_g_from_content (lines 183-281).                          *)
(***************************************************************************)
GroupTags == {"FundraiserActivityInfoGrp", "ProfessionalFundraising",
              "FundraisingActivityGroup", "ProfFundRaisingGrp"}
NameTags == <<"PersonNm", "BusinessNameLine1Txt", "BusinessNameLine1",
              "BusinessName", "OrganizationBusinessName">>
AmountPaidTags == <<"RetainedByContractorAmt", "AmtPaidToFundraiser",
                    "CompensationAmount", "AmountPaidToFundraiser",
                    "CompensationAmt">>
AmountRaisedTags == <<"GrossReceiptsFromActivityAmt", "AmountRaisedByContractor",
                      "GrossReceiptsFromActivity">>
ActivityTags == <<"ActivityTxt", "Activity", "Description">>
CityTags == <<"CityNm", "City">>
StateTags == <<"StateAbbreviationCd", "State">>

\* for child in entry.iter(): if ctag == tag and child.text: ...; break
\* The first element of the subtree with that tag and a non-empty text:
\* its index, 0 when there is none.
FirstWithText(nodes, entry, tag) ==
    LET hits == SelectSeq(Iter(nodes, entry),
                          LAMBDA j: LocalName(nodes[j].tag) = tag
                                    /\ Truthy(nodes[j].text))
    IN  IF hits = <<>> THEN 0 ELSE hits[1]

\* A text field: the candidates in priority order; the first candidate that
\* has an element with text sets the field to the stripped text, and the
\* search stops ('name' in agency).
RECURSIVE TextField(_, _, _, _)
TextField(nodes, entry, tags, k) ==
    IF k > Len(tags) THEN None
    ELSE LET h == FirstWithText(nodes, entry, tags[k])
         IN  IF h # 0 THEN Some(Strip(nodes[h].text))
             ELSE TextField(nodes, entry, tags, k + 1)

\* An amount field: as a text field, but a candidate whose first element
\* with text does not parse leaves the field unset (except ValueError:
\* pass; break), so the next candidate is tried.
RECURSIVE AmountField(_, _, _, _)
AmountField(nodes, entry, tags, k) ==
    IF k > Len(tags) THEN None
    ELSE LET h == FirstWithText(nodes, entry, tags[k])
         IN  IF h # 0 /\ ParseFloat(nodes[h].text) # None
             THEN ParseFloat(nodes[h].text)
             ELSE AmountField(nodes, entry, tags, k + 1)

\* Lines 201-217: the name, and the second search for BusinessNameLine1Txt
\* when the first set none.
AgencyName(nodes, entry) ==
    LET name == TextField(nodes, entry, NameTags, 1)
    IN  IF name # None THEN name
        ELSE TextField(nodes, entry, <<"BusinessNameLine1Txt">>, 1)

ParseGroup(nodes, entry) ==
    [name |-> AgencyName(nodes, entry),
     amount_paid |-> AmountField(nodes, entry, AmountPaidTags, 1),
     amount_raised |-> AmountField(nodes, entry, AmountRaisedTags, 1),
     activity |-> TextField(nodes, entry, ActivityTags, 1),
     city |-> TextField(nodes, entry, CityTags, 1),
     state |-> TextField(nodes, entry, StateTags, 1)]

\* found_entries (lines 191-196)
FoundEntries(nodes) ==
    SelectSeq([k \in 1..Len(nodes) |-> k],
              LAMBDA j: LocalName(nodes[j].tag) \in GroupTags)

\* agency.get('name'): the name is set and is not ""
HasName(agency) == agency.name # None /\ agency.name[1] # ""

parse_schedule_g_from_content(xml_content) ==
    IF xml_content.kind = "none" THEN <<>>
    ELSE IF xml_content.kind = "malformed" THEN <<>>
    ELSE LET nodes == xml_content.nodes
             entries == FoundEntries(nodes)
             parsed == [k \in 1..Len(entries) |-> ParseGroup(nodes, entries[k])]
         IN  SelectSeq(parsed, HasName)

\* a.get("amount_paid", 0)
AmountPaid(agency) == IF agency.amount_paid = None THEN 0 ELSE agency.amount_paid[1]

\* build_org_details (lines 159-179) and details["agencies"] (line 755):
\* the fields of the record the claims are about.
build_org_details(ein, revenue, total_expenses, fundraising_exp, xml_url, agencies) ==
    [ein |-> ein, revenue |-> revenue, total_expenses |-> total_expenses,
     fundraising_expenses |-> fundraising_exp, xml_url |-> xml_url,
     agencies |-> agencies]

(***************************************************************************)
(* Documents of the model, written as outlines: each item is an element    *)
(* with its nesting level below the root (1: a child of the root, 2: a     *)
(* child of the latest level-1 item, ...).                                 *)
(***************************************************************************)
It(tag, text, level) == [tag |-> tag, text |-> text, level |-> level]

\* Index (in the outline) of the parent of item i, 0 when it is the root.
RECURSIVE OutlineParent(_, _, _)
OutlineParent(items, i, j) ==
    IF j = 0 THEN 0
    ELSE IF items[j].level = items[i].level - 1 THEN j
    ELSE OutlineParent(items, i, j - 1)

Irs(local) == <<"{http://www.irs.gov/efile", local>>
Bare(local) == <<local>>

Build(items) ==
    Xml(<<El(Irs("Return"), "", 0)>> \o
        [i \in 1..Len(items) |->
            El(items[i].tag, items[i].text,
               IF items[i].level = 1 THEN 1
               ELSE OutlineParent(items, i, i - 1) + 1)])

\* One fundraiser group of a Schedule G, as the e-file schema nests it.
GroupItems(name_text, amount_text) ==
    <<It(Irs("FundraiserActivityInfoGrp"), "", 2),
      It(Irs("OrganizationBusinessName"), "", 3),
      It(Irs("BusinessNameLine1Txt"), name_text, 4)>>
    \o (IF amount_text = "" THEN <<>>
        ELSE <<It(Irs("RetainedByContractorAmt"), amount_text, 3)>>)
    \o <<It(Irs("GrossReceiptsFromActivityAmt"), "3000000", 3)>>

FilingDoc(fund_text, groups) ==
    Build(<<It(Irs("IRS990"), "", 1),
            It(Irs("CYTotalFundraisingExpenseAmt"), fund_text, 2),
            It(Irs("IRS990ScheduleG"), "", 1)>> \o groups)

\* A group whose PersonNm is blank and whose business name is not.
BlankPersonGroup ==
    <<It(Bare("FundraiserActivityInfoGrp"), "", 2),
      It(Bare("PersonNm"), " ", 3),
      It(Bare("BusinessNameLine1Txt"), "Beta Direct", 3),
      It(Bare("AmtPaidToFundraiser"), "600000", 3)>>

RunDocs ==
    { NoContent,
      Malformed,
      FilingDoc("3000000", GroupItems(" Acme Fundraising ", "600000")),
      FilingDoc("3000000", GroupItems("Acme Fundraising", "400000")),
      FilingDoc("1999999", GroupItems("Acme Fundraising", "600000")),
      FilingDoc("2000000", <<>>),
      FilingDoc("3000000", GroupItems("Acme Fundraising", "")),
      FilingDoc("3000000", GroupItems("Acme Fundraising", " 600000 ")
                           \o GroupItems("Beta Direct", "400000")),
      FilingDoc("3000000", BlankPersonGroup) }

RunDetails ==
    { NoData,
      OrgData(FALSE, <<>>, Some(1)),
      OrgData(TRUE, <<>>, Some(1)),
      OrgData(TRUE, <<Filing(Some(50000000), None, None, Some(40000000))>>, Some(1)),
      OrgData(TRUE, <<Filing(None, Some(20000000), None, None)>>, None),
      OrgData(TRUE, <<Filing(Some(200000001), None, None, None),
                      Filing(Some(50000000), None, None, None)>>, Some(1)) }

(***************************************************************************)
(* The sidebar (lines 595-609) and the keyword list (lines 37-44, 667-672). *)
(***************************************************************************)
DefaultMinRev == 20000000
DefaultMaxRev == 200000000
DefaultMinFund == 2000000
DefaultMinAgency == 500000
MinMaxPages == 10

Config(min_agency, target_count, search_query) ==
    [min_rev |-> DefaultMinRev, max_rev |-> DefaultMaxRev,
     min_fund |-> DefaultMinFund, min_agency |-> min_agency,
     target_count |-> target_count, search_query |-> search_query,
     max_pages |-> MinMaxPages]

\* The runs of the model: the default thresholds with a target of one, no
\* minimum agency spend with a target of two, and a user keyword.
Configs ==
    { Config(DefaultMinAgency, 1, ""),
      Config(0, 2, ""),
      Config(DefaultMinAgency, 2, "hospital") }

AllKeywords ==
    <<"foundation", "hospital", "university", "association", "society",
      "institute", "museum", "community", "health", "education",
      "children", "medical", "research", "services", "arts",
      "wildlife", "conservation", "relief", "humanitarian", "scholarship",
      "veterans", "housing", "faith", "church", "mission",
      "development", "advocacy", "prevention", "counseling", "food bank">>

\* The model keeps the first NumKeywords entries of the list.
BROAD_SEARCH_KEYWORDS == SubSeq(AllKeywords, 1, NumKeywords)

search_keywords ==
    IF cfg.search_query # "" THEN <<cfg.search_query>> ELSE BROAD_SEARCH_KEYWORDS

Max(a, b) == IF a >= b THEN a ELSE b

pages_per_keyword == Max(1, cfg.max_pages \div Len(search_keywords))

EINs == 1..NumEins

(***************************************************************************)
(* The search run (lines 645-781).                                         *)
(***************************************************************************)
NoOrg == [ein |-> 0, org_data |-> NoData, revenue |-> 0, total_expenses |-> 0,
          xml_url |-> None, xml_content |-> NoContent, fundraising_exp |-> 0,
          agencies |-> <<>>]

NoCall == [fn |-> "none"]

\* The stages of the per-organization pipeline, in the order of the code.
Stages == <<"detail fetch", "revenue check", "e-file lookup", "document download",
            "fundraising-expense check", "Schedule G parse",
            "agency threshold filter">>

\* The diagnostic lines add_log writes for an organization.
LogChecking == "Checking"
LogNoEfile == "No XML e-file available"
LogDownloadFailed == "Could not download XML e-file"
LogFundraisingLow == "Fundraising expense < min_fund"
LogParsing == "Parsing Schedule G for agencies"
LogNoAgencies == "No Schedule G agency data found"
\* Mutant: the threshold rejection reuses the no-agency line.
LogNoneAbove_AsNoAgencies == "No Schedule G agency data found"
LogNoneAbove == "Agencies found but none >= min_agency"
LogQualified == "QUALIFIED"

\* The fetchers are idle and nothing is memoized.
NoFetch == [fn |-> "none", from_cache |-> FALSE, ret |-> None, log |-> <<>>]

FetchFns == {"api_get", "fetch_xml"}

NoNet == [cache |-> [f \in FetchFns |-> None], last |-> NoFetch]

\* What the run has asked of the search endpoint so far: the number of calls,
\* the number of calls in a row, up to the last one, that came back as an
\* error, and for the keyword of the last call the pages asked of it.
NoSearches == [count |-> 0, errors_in_a_row |-> 0, kw_idx |-> 0 - 1, pages |-> <<>>]

\* Line 686: search_orgs(query=keyword, page=page) is called and comes back
\* as an error (line 687) or not.
Searched(error) ==
    searches' =
        [count |-> searches.count + 1,
         errors_in_a_row |-> IF error THEN searches.errors_in_a_row + 1 ELSE 0,
         kw_idx |-> kw_idx,
         pages |-> IF searches.kw_idx = kw_idx THEN Append(searches.pages, page)
                   ELSE <<page>>]

RunInit ==
    /\ cfg \in Configs
    /\ pc = "search"
    /\ kw_idx = 0
    /\ page = 0
    /\ norgs = 0
    /\ oi = 0
    /\ seen_eins = {}
    /\ qualifying = <<>>
    /\ api_errors = 0
    /\ org = NoOrg
    /\ trace = <<>>
    /\ log = ""
    /\ lastReq = "none"
    /\ fetched = [e \in EINs |-> 0]
    /\ warned = FALSE
    /\ searches = NoSearches
    /\ net = NoNet
    /\ call = NoCall

\* Mutant: the target test off by one.
TargetReached_OffByOne == Len(qualifying) > cfg.target_count

\* len(qualifying) >= target_count   (lines 675, 679, 700)
TargetReached == Len(qualifying) >= cfg.target_count

\* Mutant: the seen-set is never consulted.
AlreadySeen_Never(ein) == FALSE

\* ein in seen_eins   (line 704)
AlreadySeen(ein) == ein \in seen_eins

\* fundraising_exp < min_fund   (line 734)
BelowMinFund(fundraising_exp) == fundraising_exp < cfg.min_fund

\* Mutant: the record takes every parsed agency.
QualifyingAgencies_Unfiltered(agencies) == agencies

\* [a for a in agencies if a.get("amount_paid", 0) >= min_agency]   (line 747)
QualifyingAgencies(agencies) ==
    SelectSeq(agencies, LAMBDA a: AmountPaid(a) >= cfg.min_agency)

\* break out of the page loop: the next keyword, from its page 0.
NextKeyword ==
    /\ kw_idx' = kw_idx + 1
    /\ page' = 0

\* The end of one page-loop iteration: the next page of the keyword, or
\* the next keyword when range(pages_per_keyword) is used up.
NextPage ==
    IF page + 1 < pages_per_keyword
    THEN /\ page' = page + 1
         /\ kw_idx' = kw_idx
    ELSE NextKeyword

\* Mutant: a rejection ends the run.
Reject_Halt(stage) ==
    /\ trace' = Append(trace, [stage |-> stage, passed |-> FALSE])
    /\ org' = org
    /\ pc' = "done"

\* continue: the organization is rejected at `stage`, and the loop goes on
\* with the next organization of the page.
Reject(stage) ==
    /\ trace' = Append(trace, [stage |-> stage, passed |-> FALSE])
    /\ org' = org
    /\ pc' = "orgs"

Pass(stage, next) ==
    /\ trace' = Append(trace, [stage |-> stage, passed |-> TRUE])
    /\ pc' = next

\* The organization loop moves on (or is left): the locals, the stages and
\* the log line of the iteration before are over.
NewIteration ==
    /\ org' = NoOrg
    /\ trace' = <<>>
    /\ log' = ""

\* Lines 674-680 and 779-781: the keyword list is used up, or the target is
\* reached at a loop head; the run ends.
Finish ==
    /\ pc = "search"
    /\ kw_idx >= Len(search_keywords) \/ TargetReached
    /\ pc' = "done"
    /\ lastReq' = "none"
    /\ UNCHANGED <<cfg, kw_idx, page, norgs, oi, seen_eins, qualifying,
                   api_errors, org, trace, log, fetched, warned, searches, net, call>>

SearchGuard ==
    /\ pc = "search"
    /\ kw_idx < Len(search_keywords)
    /\ ~TargetReached

\* Lines 686-692: search_orgs returns None or an object without
\* "organizations".
SearchError ==
    /\ SearchGuard
    /\ lastReq' = "search"
    /\ Searched(TRUE)
    /\ api_errors' = api_errors + 1
    /\ warned' = (warned \/ api_errors + 1 >= 5)
    /\ NextKeyword
    /\ UNCHANGED <<cfg, pc, norgs, oi, seen_eins, qualifying, org, trace, log,
                   fetched, net, call>>

\* Lines 694-697: an empty "organizations" list.
SearchEmpty ==
    /\ SearchGuard
    /\ lastReq' = "search"
    /\ Searched(FALSE)
    /\ NextKeyword
    /\ UNCHANGED <<cfg, pc, norgs, oi, seen_eins, qualifying, api_errors, org,
                   trace, log, fetched, warned, net, call>>

\* Lines 686-699: a page of n organizations; the for loop starts.
SearchOrgs ==
    /\ SearchGuard
    /\ lastReq' = "search"
    /\ Searched(FALSE)
    /\ \E n \in 1..MaxOrgsPerPage : norgs' = n
    /\ oi' = 0
    /\ pc' = "orgs"
    /\ UNCHANGED <<cfg, kw_idx, page, seen_eins, qualifying, api_errors, org,
                   trace, log, fetched, warned, net, call>>

\* Lines 699-701: the page is used up, or the target is reached at the head
\* of the organization loop.
EndOfPage ==
    /\ pc = "orgs"
    /\ oi >= norgs \/ TargetReached
    /\ NextPage
    /\ pc' = "search"
    /\ lastReq' = "none"
    /\ NewIteration
    /\ UNCHANGED <<cfg, norgs, oi, seen_eins, qualifying, api_errors,
                   fetched, warned, searches, net, call>>

OrgGuard ==
    /\ pc = "orgs"
    /\ oi < norgs
    /\ ~TargetReached

\* Lines 703-705: the next organization of the page has an EIN seen before.
SkipSeen ==
    /\ OrgGuard
    /\ \E ein \in EINs : AlreadySeen(ein)
    /\ oi' = oi + 1
    /\ lastReq' = "none"
    /\ NewIteration
    /\ UNCHANGED <<cfg, pc, kw_idx, page, norgs, seen_eins, qualifying,
                   api_errors, fetched, warned, searches, net, call>>

\* Lines 703-710: the next organization of the page is new.
StartOrg ==
    /\ OrgGuard
    /\ \E ein \in EINs :
        /\ ~AlreadySeen(ein)
        /\ seen_eins' = seen_eins \cup {ein}
        /\ org' = [NoOrg EXCEPT !.ein = ein]
    /\ oi' = oi + 1
    /\ trace' = <<>>
    /\ log' = ""
    /\ pc' = "detail"
    /\ lastReq' = "none"
    /\ UNCHANGED <<cfg, kw_idx, page, norgs, qualifying, api_errors, fetched,
                   warned, searches, net, call>>

\* Lines 712-714
FetchDetail ==
    /\ pc = "detail"
    /\ lastReq' = "detail"
    /\ fetched' = [fetched EXCEPT ![org.ein] = @ + 1]
    /\ \E org_data \in RunDetails :
        IF org_data.kind = "none"
        THEN Reject(Stages[1])
        ELSE /\ Pass(Stages[1], "revenue")
             /\ org' = [org EXCEPT !.org_data = org_data]
    /\ UNCHANGED <<cfg, kw_idx, page, norgs, oi, seen_eins, qualifying,
                   api_errors, log, warned, searches, net, call>>

\* Lines 716-721
CheckRevenue ==
    /\ pc = "revenue"
    /\ lastReq' = "none"
    /\ LET r == check_revenue(org.org_data, cfg.min_rev, cfg.max_rev)
       IN  IF ~r.matched
           THEN Reject(Stages[2]) /\ log' = log
           ELSE /\ Pass(Stages[2], "efile")
                /\ org' = [org EXCEPT !.revenue = r.revenue,
                                      !.total_expenses = r.total_expenses]
                /\ log' = LogChecking
    /\ UNCHANGED <<cfg, kw_idx, page, norgs, oi, seen_eins, qualifying,
                   api_errors, fetched, warned, searches, net, call>>

\* Lines 723-726
LookupEfile ==
    /\ pc = "efile"
    /\ lastReq' = "none"
    /\ LET xml_url == get_xml_url(org.org_data)
       IN  IF xml_url = None
           THEN Reject(Stages[3]) /\ log' = LogNoEfile
           ELSE /\ Pass(Stages[3], "download")
                /\ org' = [org EXCEPT !.xml_url = xml_url]
                /\ log' = log
    /\ UNCHANGED <<cfg, kw_idx, page, norgs, oi, seen_eins, qualifying,
                   api_errors, fetched, warned, searches, net, call>>

\* Lines 728-731
DownloadXml ==
    /\ pc = "download"
    /\ lastReq' = "xml"
    /\ \E xml_content \in RunDocs :
        IF xml_content.kind = "none"
        THEN Reject(Stages[4]) /\ log' = LogDownloadFailed
        ELSE /\ Pass(Stages[4], "fundraising")
             /\ org' = [org EXCEPT !.xml_content = xml_content]
             /\ log' = log
    /\ UNCHANGED <<cfg, kw_idx, page, norgs, oi, seen_eins, qualifying,
                   api_errors, fetched, warned, searches, net, call>>

\* Lines 733-739
CheckFundraising ==
    /\ pc = "fundraising"
    /\ lastReq' = "none"
    /\ LET fundraising_exp == get_fundraising_expense_from_xml(org.xml_content)
       IN  IF BelowMinFund(fundraising_exp)
           THEN Reject(Stages[5]) /\ log' = LogFundraisingLow
           ELSE /\ Pass(Stages[5], "scheduleG")
                /\ org' = [org EXCEPT !.fundraising_exp = fundraising_exp]
                /\ log' = LogParsing
    /\ UNCHANGED <<cfg, kw_idx, page, norgs, oi, seen_eins, qualifying,
                   api_errors, fetched, warned, searches, net, call>>

\* Lines 741-745
ParseScheduleG ==
    /\ pc = "scheduleG"
    /\ lastReq' = "none"
    /\ LET agencies == parse_schedule_g_from_content(org.xml_content)
       IN  IF agencies = <<>>
           THEN Reject(Stages[6]) /\ log' = LogNoAgencies
           ELSE /\ Pass(Stages[6], "filter")
                /\ org' = [org EXCEPT !.agencies = agencies]
                /\ log' = log
    /\ UNCHANGED <<cfg, kw_idx, page, norgs, oi, seen_eins, qualifying,
                   api_errors, fetched, warned, searches, net, call>>

\* Lines 747-761
FilterAgencies ==
    /\ pc = "filter"
    /\ lastReq' = "none"
    /\ LET qualifying_agencies == QualifyingAgencies(org.agencies)
       IN  IF qualifying_agencies = <<>>
           THEN /\ Reject(Stages[7])
                /\ log' = LogNoneAbove
                /\ qualifying' = qualifying
           ELSE /\ Pass(Stages[7], "orgs")
                /\ qualifying' = Append(qualifying,
                       build_org_details(org.ein, org.revenue, org.total_expenses,
                                         org.fundraising_exp, org.xml_url,
                                         qualifying_agencies))
                /\ org' = org
                /\ log' = LogQualified
    /\ UNCHANGED <<cfg, kw_idx, page, norgs, oi, seen_eins, api_errors,
                   fetched, warned, searches, net, call>>

Next ==
    \/ Finish
    \/ SearchError
    \/ SearchEmpty
    \/ SearchOrgs
    \/ EndOfPage
    \/ SkipSeen
    \/ StartOrg
    \/ FetchDetail
    \/ CheckRevenue
    \/ LookupEfile
    \/ DownloadXml
    \/ CheckFundraising
    \/ ParseScheduleG
    \/ FilterAgencies

Spec == RunInit /\ [][Next]_vars

(***************************************************************************)
(* Properties of the search run (specification Spec).                      *)
(***************************************************************************)
Last(seq) == seq[Len(seq)]
Range(seq) == {seq[i] : i \in 1..Len(seq)}

\* The organization of the current iteration has been through `stage`.
Ran(stage) == \E i \in 1..Len(trace) : trace[i].stage = stage
Failed(stage) == trace # <<>> /\ Last(trace).stage = stage /\ ~Last(trace).passed

\* C1: during one run the pipeline is started at most once per EIN: an EIN
\* has at most one detail fetch and at most one result record, a document
\* fetch belongs to the iteration that made the detail fetch of that EIN,
\* and right after an occurrence of a seen EIN was skipped no request has
\* been issued.
C1_EinProcessedOnce ==
    /\ \A e \in EINs :
        /\ fetched[e] <= 1
        /\ fetched[e] = 1 => e \in seen_eins
        /\ Cardinality({i \in 1..Len(qualifying) : qualifying[i].ein = e}) <= 1
    /\ lastReq = "xml" =>
        /\ trace[1].stage = "detail fetch"
        /\ fetched[org.ein] = 1
    /\ (pc = "orgs" /\ oi >= 1 /\ trace = <<>>) => lastReq = "none"

\* On a later keyword an organization of the page was taken and skipped:
\* nothing is in the pipeline, and the EIN it repeats was fetched once.
C1_Witness ==
    /\ pc = "orgs"
    /\ kw_idx >= 1
    /\ oi >= 1
    /\ trace = <<>>
    /\ \E e \in EINs : seen_eins = {e} /\ fetched[e] = 1

\* C2: the number of Qualified records never exceeds the target; once it
\* equals the target no search request, detail fetch or document fetch is
\* issued; the run ends only with the target reached or the keyword list
\* used up.
C2_TargetBoundsRun ==
    /\ Len(qualifying) <= cfg.target_count
    /\ Len(qualifying) >= cfg.target_count => lastReq = "none"
    /\ pc = "done" =>
        \/ Len(qualifying) = cfg.target_count
        \/ kw_idx >= Len(search_keywords)

\* The target of two is reached in the middle of a page.
C2_Witness ==
    /\ cfg.target_count = 2
    /\ Len(qualifying) = 2
    /\ pc = "orgs"
    /\ oi < norgs
    /\ kw_idx < Len(search_keywords)

\* a.get("amount_paid", 0) >= min_agency, written out.
MeetsThreshold(a) ==
    (IF a.amount_paid = None THEN 0 ELSE a.amount_paid[1]) >= cfg.min_agency

FinancialsQualify(rec) ==
    /\ cfg.min_rev <= rec.revenue
    /\ rec.revenue <= cfg.max_rev
    /\ rec.fundraising_expenses >= cfg.min_fund
    /\ rec.agencies # <<>>

NotListed == \A rec \in Range(qualifying) : rec.ein # org.ein

RejectedNoneAbove ==
    /\ Failed("agency threshold filter")
    /\ log = "Agencies found but none >= min_agency"
    /\ pc = "orgs"
    /\ NotListed

StagesDone ==
    CASE pc = "detail" -> 0
      [] pc = "revenue" -> 1
      [] pc = "efile" -> 2
      [] pc = "download" -> 3
      [] pc = "fundraising" -> 4
      [] pc = "scheduleG" -> 5
      [] pc = "filter" -> 6
      [] OTHER -> Len(trace)

\* C5: the stages of an organization run in the fixed order detail fetch,
\* revenue check, e-file lookup, document download, fundraising-expense
\* check, Schedule G parse, agency threshold filter; a stage runs only
\* after every earlier one passed; a failing stage is the last one run for
\* the organization; and after a rejection the run is at the organization
\* loop again, not at its end.
C5_StageOrder ==
    /\ Len(trace) <= 7
    /\ Len(trace) = StagesDone
    /\ \A i \in 1..Len(trace) :
        /\ trace[i].stage =
             <<"detail fetch", "revenue check", "e-file lookup",
               "document download", "fundraising-expense check",
               "Schedule G parse", "agency threshold filter">>[i]
        /\ i < Len(trace) => trace[i].passed
    /\ (trace # <<>> /\ ~Last(trace).passed) => pc = "orgs"
    /\ lastReq = "xml" => Len(trace) = 4

\* An organization was rejected at the revenue check, no document was
\* asked for, and the page has another organization to go on with.
C5_Witness ==
    /\ Failed("revenue check")
    /\ Len(trace) = 2
    /\ lastReq = "none"
    /\ pc = "orgs"
    /\ oi < norgs

(***************************************************************************)
(* Calls of the pure functions. While a function is checked on its own     *)
(* the run is not started: its variables keep the values below.            *)
(***************************************************************************)
IdleRun ==
    /\ cfg = Config(DefaultMinAgency, 1, "")
    /\ pc = "idle"
    /\ kw_idx = 0
    /\ page = 0
    /\ norgs = 0
    /\ oi = 0
    /\ seen_eins = {}
    /\ qualifying = <<>>
    /\ api_errors = 0
    /\ org = NoOrg
    /\ trace = <<>>
    /\ log = ""
    /\ lastReq = "none"
    /\ fetched = [e \in EINs |-> 0]
    /\ warned = FALSE
    /\ searches = NoSearches
    /\ net = NoNet

\* Sequences over S of length lo..hi.
SeqsOf(S, lo, hi) == UNION {[1..n -> S] : n \in lo..hi}

(***************************************************************************)
(* check_revenue on its own (specification SpecRevenue).                   *)
(***************************************************************************)
RevenueFieldValues == {None, Some(0), Some(1), Some(3), Some(4)}

FirstFilings ==
    {Filing(a, b, c, e) : a \in RevenueFieldValues, b \in RevenueFieldValues,
                          c \in RevenueFieldValues, e \in {None, Some(7)}}

OlderFilings == {Filing(Some(0), None, None, None), Filing(Some(3), None, None, None)}

FilingLists ==
    {<<>>} \cup {<<f>> \o rest : f \in FirstFilings,
                                 rest \in SeqsOf(OlderFilings, 0, MaxFilings - 1)}

RevenueInputs ==
    {NoData} \cup {OrgData(h, fl, None) : h \in BOOLEAN, fl \in FilingLists}

\* [min_rev, max_rev]: a range above 0, a range that contains 0, one value.
RevenueRanges == {<<1, 3>>, <<0, 3>>, <<4, 4>>}

RevenueInit ==
    /\ IdleRun
    /\ call \in {[fn |-> "check_revenue", org_data |-> d, min_rev |-> r[1],
                  max_rev |-> r[2], done |-> FALSE,
                  ret |-> RevenueResult(FALSE, 0, 0)] :
                 d \in RevenueInputs, r \in RevenueRanges}

CallCheckRevenue ==
    /\ call.fn = "check_revenue"
    /\ ~call.done
    /\ call' = [call EXCEPT !.done = TRUE,
                            !.ret = check_revenue(call.org_data, call.min_rev,
                                                  call.max_rev)]
    /\ UNCHANGED runVars

RevenueNext == CallCheckRevenue

SpecRevenue == RevenueInit /\ [][RevenueNext]_vars

\* The record has at least one filing: it is an object, it holds the key
\* "filings_with_data", and the list under it is not empty.
HasAFiling(org_data) ==
    org_data.kind = "dict" /\ org_data.has_filings /\ Len(org_data.filings) >= 1

\* C6: check_revenue returns matched = true exactly when the record has at
\* least one filing and min_rev <= revenue <= max_rev, both bounds
\* included; a record without filings is a non-match for every range, also
\* one that contains 0.
C6_RevenueInclusive ==
    (call.fn = "check_revenue" /\ call.done) =>
        /\ call.ret.matched <=>
            (/\ HasAFiling(call.org_data)
             /\ call.min_rev <= call.ret.revenue
             /\ call.ret.revenue <= call.max_rev)
        /\ ~HasAFiling(call.org_data) => ~call.ret.matched /\ call.ret.revenue = 0
        /\ (/\ HasAFiling(call.org_data)
            /\ call.org_data.filings[1].totrevenue \notin {None, Some(0)})
           => call.ret.revenue = call.org_data.filings[1].totrevenue[1]

\* A revenue equal to max_rev, with min_rev < max_rev, matches.
C6_Witness ==
    /\ call.fn = "check_revenue"
    /\ call.done
    /\ call.ret.matched
    /\ call.min_rev < call.max_rev
    /\ call.ret.revenue = call.max_rev
    /\ call.org_data.filings[1].totrevenue = Some(call.max_rev)

(***************************************************************************)
(* The two document readers on their own (specification SpecXml).          *)
(***************************************************************************)
\* Items of the generated documents that report a fundraising expense.
FundItemKinds ==
    {It(Bare("CYTotalFundraisingExpenseAmt"), t, 1) : t \in {"", "x", "5", "7"}}
    \cup {It(Irs("TotalFundrsngExpCurrentYrAmt"), t, 1) : t \in {"", "x", "5", "7"}}
    \cup {It(Bare("TotalFunctionalExpensesGrp"), "", 1),
          It(Bare("OtherExpensesGrp"), "", 1)}
    \cup {It(Bare("FundraisingAmt"), t, l) : t \in {"x", "9"}, l \in {1, 2}}

\* Items of the generated documents that hold fundraiser groups.
GroupItemKinds ==
    {It(Bare("FundraiserActivityInfoGrp"), "", 1)}
    \cup {It(Bare("PersonNm"), t, 2) : t \in {"", " ", "Ann Lee"}}
    \cup {It(Irs("BusinessNameLine1Txt"), t, 2) : t \in {" ", "Beta Direct"}}
    \cup {It(Bare("AmtPaidToFundraiser"), t, 2) : t \in {"x", "600000"}}

FundDocs == {Build(items) : items \in SeqsOf(FundItemKinds, 0, MaxItems)} \cup RunDocs
GroupDocs == {Build(items) : items \in SeqsOf(GroupItemKinds, 0, MaxItems)} \cup RunDocs

XmlInit ==
    /\ IdleRun
    /\ call \in
        {[fn |-> "get_fundraising_expense_from_xml", xml |-> d, done |-> FALSE,
          ret |-> 0] : d \in FundDocs}
        \cup
        {[fn |-> "parse_schedule_g_from_content", xml |-> d, done |-> FALSE,
          ret |-> 0] : d \in GroupDocs}

CallFundraisingExpense ==
    /\ call.fn = "get_fundraising_expense_from_xml"
    /\ ~call.done
    /\ call' = [call EXCEPT !.done = TRUE,
                            !.ret = get_fundraising_expense_from_xml(call.xml)]
    /\ UNCHANGED runVars

CallParseScheduleG ==
    /\ call.fn = "parse_schedule_g_from_content"
    /\ ~call.done
    /\ call' = [call EXCEPT !.done = TRUE,
                            !.ret = parse_schedule_g_from_content(call.xml)]
    /\ UNCHANGED runVars

XmlNext ==
    \/ CallFundraisingExpense
    \/ CallParseScheduleG

SpecXml == XmlInit /\ [][XmlNext]_vars

FundraisingDone ==
    /\ call.fn = "get_fundraising_expense_from_xml"
    /\ call.done
    /\ call.xml.kind = "xml"

\* The elements with that name whose text float() accepts.
ParseableNamed(nodes, names) ==
    {i \in 1..Len(nodes) :
        /\ LocalName(nodes[i].tag) \in names
        /\ nodes[i].text # ""
        /\ ParseFloat(nodes[i].text) # None}

MinOf(S) == CHOOSE i \in S : \A j \in S : i <= j

ValueAt(nodes, i) == ParseFloat(nodes[i].text)[1]

ScheduleGDone ==
    /\ call.fn = "parse_schedule_g_from_content"
    /\ call.done
    /\ call.xml.kind = "xml"

\* The group holds a name: an element of its subtree is named by a name
\* candidate and has a text that is not empty once stripped.
GroupHoldsName(nodes, entry) ==
    \E j \in 1..Len(nodes) :
        /\ InSubtree(nodes, entry, j)
        /\ LocalName(nodes[j].tag) \in Range(NameTags)
        /\ Strip(nodes[j].text) # ""

MatchedGroups(nodes) == {e \in 1..Len(nodes) : LocalName(nodes[e].tag) \in GroupTags}

\* C8: every agency parse_schedule_g_from_content returns has a non-empty
\* name, and the number of agencies returned equals the number of matched
\* groups that hold a name.
C8_GroupsWithName ==
    ScheduleGDone =>
        /\ \A a \in Range(call.ret) : a.name # None /\ a.name[1] # ""
        /\ Len(call.ret) =
             Cardinality({e \in MatchedGroups(call.xml.nodes) :
                             GroupHoldsName(call.xml.nodes, e)})

(***************************************************************************)
(* Contact scoring and ranking (specification SpecContacts).               *)
(*                                                                         *)
(* A title is a sequence of one-character strings, so that lowercasing and *)
(* the substring test `kw in title` are computed character by character.   *)
(***************************************************************************)
LowerChar(c) ==
    CASE c = "A" -> "a"
      [] c = "B" -> "b"
      [] c = "C" -> "c"
      [] c = "D" -> "d"
      [] c = "E" -> "e"
      [] c = "F" -> "f"
      [] c = "G" -> "g"
      [] c = "H" -> "h"
      [] c = "I" -> "i"
      [] c = "J" -> "j"
      [] c = "K" -> "k"
      [] c = "L" -> "l"
      [] c = "M" -> "m"
      [] c = "N" -> "n"
      [] c = "O" -> "o"
      [] c = "P" -> "p"
      [] c = "Q" -> "q"
      [] c = "R" -> "r"
      [] c = "S" -> "s"
      [] c = "T" -> "t"
      [] c = "U" -> "u"
      [] c = "V" -> "v"
      [] c = "W" -> "w"
      [] c = "X" -> "x"
      [] c = "Y" -> "y"
      [] c = "Z" -> "z"
      [] OTHER -> c

Lower(chars) == [i \in 1..Len(chars) |-> LowerChar(chars[i])]

\* Python's `kw in title`.
Contains(kw, title) ==
    \E i \in 0..(Len(title) - Len(kw)) : SubSeq(title, i + 1, i + Len(kw)) = kw

fundraising_kw ==
    << <<"d", "e", "v", "e", "l", "o", "p", "m", "e", "n", "t">>,
       <<"f", "u", "n", "d", "r", "a", "i", "s">>,
       <<"a", "d", "v", "a", "n", "c", "e", "m", "e", "n", "t">>,
       <<"d", "o", "n", "o", "r">>,
       <<"p", "h", "i", "l", "a", "n", "t", "h", "r", "o", "p">>,
       <<"a", "n", "n", "u", "a", "l", " ", "g", "i", "v", "i", "n", "g">>,
       <<"m", "a", "j", "o", "r", " ", "g", "i", "f", "t">>,
       <<"p", "l", "a", "n", "n", "e", "d", " ", "g", "i", "v", "i", "n", "g">>,
       <<"c", "a", "m", "p", "a", "i", "g", "n">>,
       <<"c", "h", "i", "e", "f", " ", "d", "e", "v", "e", "l", "o", "p", "m", "e", "n", "t">>,
       <<"c", "d", "o">>,
       <<"v", "p", " ", "d", "e", "v", "e", "l", "o", "p">>,
       <<"v", "i", "c", "e", " ", "p", "r", "e", "s", "i", "d", "e", "n", "t", " ", "d", "e", "v", "e", "l", "o", "p">> >>

leadership_kw ==
    << <<"c", "h", "i", "e", "f">>,
       <<"p", "r", "e", "s", "i", "d", "e", "n", "t">>,
       <<"e", "x", "e", "c", "u", "t", "i", "v", "e", " ", "d", "i", "r", "e", "c", "t", "o", "r">>,
       <<"c", "e", "o">>,
       <<"c", "f", "o">>,
       <<"c", "o", "o">>,
       <<"v", "p">>,
       <<"v", "i", "c", "e", " ", "p", "r", "e", "s", "i", "d", "e", "n", "t">>,
       <<"s", "v", "p">>,
       <<"e", "v", "p">>,
       <<"d", "i", "r", "e", "c", "t", "o", "r">>,
       <<"s", "e", "c", "r", "e", "t", "a", "r", "y">>,
       <<"t", "r", "e", "a", "s", "u", "r", "e", "r">> >>

\* "Chief Development Officer"
TitleChiefDevelopmentOfficer ==
    <<"C", "h", "i", "e", "f", " ", "D", "e", "v", "e", "l", "o", "p", "m", "e", "n", "t", " ", "O", "f", "f", "i", "c", "e", "r">>

\* "VP Development and Fundraising"
TitleVpDevelopmentAndFundraising ==
    <<"V", "P", " ", "D", "e", "v", "e", "l", "o", "p", "m", "e", "n", "t", " ", "a", "n", "d", " ", "F", "u", "n", "d", "r", "a", "i", "s", "i", "n", "g">>

\* "DIRECTOR"
TitleDirectorUpper ==
    <<"D", "I", "R", "E", "C", "T", "O", "R">>

\* "Donor Relations Manager"
TitleDonorRelationsManager ==
    <<"D", "o", "n", "o", "r", " ", "R", "e", "l", "a", "t", "i", "o", "n", "s", " ", "M", "a", "n", "a", "g", "e", "r">>

\* "Vice President"
TitleVicePresident ==
    <<"V", "i", "c", "e", " ", "P", "r", "e", "s", "i", "d", "e", "n", "t">>

\* "Coordinator"
TitleCoordinator ==
    <<"C", "o", "o", "r", "d", "i", "n", "a", "t", "o", "r">>

\* "Trustee"
TitleTrustee ==
    <<"T", "r", "u", "s", "t", "e", "e">>

Titles ==
    {None, Some(<<>>)}
    \cup {Some(TitleChiefDevelopmentOfficer), Some(TitleVpDevelopmentAndFundraising),
          Some(TitleDirectorUpper), Some(TitleDonorRelationsManager),
          Some(TitleVicePresident), Some(TitleCoordinator), Some(TitleTrustee)}

\* A person as extract_officers_from_xml builds it: a name, and a title, a
\* compensation and the hours text where the filing has them.
Officer(name, title, compensation, hours_per_week) ==
    [name |-> name, title |-> title, compensation |-> compensation,
     hours_per_week |-> hours_per_week, relevance_score |-> None,
     source |-> None]

\* One name per position of the officer list.
OfficerNames ==
    <<"Ann Lee", "Bo Chen", "Cy Diaz", "Di Evans", "Ed Frost", "Flo Gray",
      "Gus Hale">>

\* Mutant: no break in the keyword loop, one bonus per matching keyword.
RECURSIVE KeywordBonus_NoBreak(_, _, _, _)
KeywordBonus_NoBreak(kws, title, bonus, i) ==
    IF i > Len(kws) THEN 0
    ELSE (IF Contains(kws[i], title) THEN bonus ELSE 0)
         + KeywordBonus_NoBreak(kws, title, bonus, i + 1)

\* for kw in kws: if kw in title: score += bonus; break
RECURSIVE KeywordBonus(_, _, _, _)
KeywordBonus(kws, title, bonus, i) ==
    IF i > Len(kws) THEN 0
    ELSE IF Contains(kws[i], title) THEN bonus
    ELSE KeywordBonus(kws, title, bonus, i + 1)

\* (officer.get('title', '') or '').lower()
LoweredTitle(officer) ==
    IF officer.title = None THEN <<>> ELSE Lower(officer.title[1])

\* officer.get('compensation', 0) and officer['compensation'] > 0
CompensationBonus(officer) ==
    IF TruthyNum(officer.compensation) /\ officer.compensation[1] > 0
    THEN 3 ELSE 0

\* float(officer.get('hours_per_week', '0')) >= 30, any error swallowed
HoursBonus(officer) ==
    LET text == IF officer.hours_per_week = None THEN "0"
                ELSE officer.hours_per_week[1]
        hours == ParseFloat(text)
    IN  IF hours # None /\ hours[1] >= 30 THEN 2 ELSE 0

Score(officer) ==
    KeywordBonus(fundraising_kw, LoweredTitle(officer), 10, 1)
    + KeywordBonus(leadership_kw, LoweredTitle(officer), 5, 1)
    + CompensationBonus(officer)
    + HoursBonus(officer)

\* The officer after the loop body: scored officers are annotated in place.
Annotate(officer) ==
    IF Score(officer) > 0
    THEN [officer EXCEPT !.relevance_score = Some(Score(officer)),
                         !.source = Some("Form 990")]
    ELSE officer

AnnotateAll(officers) == [i \in 1..Len(officers) |-> Annotate(officers[i])]

IsScored(officer) == officer.relevance_score # None

\* x.get('relevance_score', 0), x.get('compensation', 0)
KeyScore(officer) ==
    IF officer.relevance_score = None THEN 0 ELSE officer.relevance_score[1]

KeyCompensation(officer) ==
    IF officer.compensation = None THEN 0 ELSE officer.compensation[1]

\* Tuple comparison of the sort keys.
KeyGE(a, b) ==
    \/ KeyScore(a) > KeyScore(b)
    \/ KeyScore(a) = KeyScore(b) /\ KeyCompensation(a) >= KeyCompensation(b)

RECURSIVE InsertByKey(_, _)
InsertByKey(x, sorted) ==
    IF sorted = <<>> THEN <<x>>
    ELSE IF KeyGE(Head(sorted), x)
    THEN <<Head(sorted)>> \o InsertByKey(x, Tail(sorted))
    ELSE <<x>> \o sorted

\* Mutant: the list is left in input order.
SortScored_InputOrder(scored, i, acc) == scored

\* scored.sort(key=..., reverse=True): descending and stable.
RECURSIVE SortScored(_, _, _)
SortScored(scored, i, acc) ==
    IF i > Len(scored) THEN acc
    ELSE SortScored(scored, i + 1, InsertByKey(scored[i], acc))

filter_fundraising_contacts(officers) ==
    LET scored == SelectSeq(AnnotateAll(officers), IsScored)
        ranked == SortScored(scored, 1, <<>>)
    IN  IF Len(ranked) > 4 THEN SubSeq(ranked, 1, 4) ELSE ranked

Compensations == {None, Some(0), Some(90000), Some(150000), Some(0 - 1)}
HoursTexts == {None, Some(""), Some("x"), Some("29"), Some("30"), Some("40")}

\* Every kind of officer, for lists of one.
OfficerKinds ==
    {[title |-> t, compensation |-> c, hours_per_week |-> h] :
        t \in Titles, c \in Compensations, h \in HoursTexts}

\* The kinds that make up the longer lists: unscored, two that tie on score
\* with different compensation, and two that score higher with less pay.
RankingKinds ==
    {[title |-> Some(TitleTrustee), compensation |-> None, hours_per_week |-> None],
     [title |-> Some(TitleDirectorUpper), compensation |-> Some(90000),
      hours_per_week |-> None],
     [title |-> Some(TitleDirectorUpper), compensation |-> Some(150000),
      hours_per_week |-> None],
     [title |-> Some(TitleChiefDevelopmentOfficer), compensation |-> Some(90000),
      hours_per_week |-> Some("40")],
     [title |-> Some(TitleDonorRelationsManager), compensation |-> None,
      hours_per_week |-> Some("x")]}

OfficersOf(kinds) ==
    [i \in 1..Len(kinds) |->
        Officer(OfficerNames[i], kinds[i].title, kinds[i].compensation,
                kinds[i].hours_per_week)]

OfficerLists ==
    {OfficersOf(ks) : ks \in SeqsOf(OfficerKinds, 1, 1)}
    \cup {OfficersOf(ks) : ks \in SeqsOf(RankingKinds, 0, MaxOfficers)}

ContactsInit ==
    /\ IdleRun
    /\ call \in {[fn |-> "filter_fundraising_contacts", officers |-> os,
                  done |-> FALSE, ret |-> <<>>] : os \in OfficerLists}

\* The call returns the top of the ranking; the caller's officers carry the
\* annotations the loop wrote into them.
CallFilterContacts ==
    /\ call.fn = "filter_fundraising_contacts"
    /\ ~call.done
    /\ call' = [call EXCEPT !.done = TRUE,
                            !.officers = AnnotateAll(call.officers),
                            !.ret = filter_fundraising_contacts(call.officers)]
    /\ UNCHANGED runVars

ContactsNext == CallFilterContacts

SpecContacts == ContactsInit /\ [][ContactsNext]_vars

ContactsDone == call.fn = "filter_fundraising_contacts" /\ call.done

AnyKeyword(kws, officer) ==
    \E k \in 1..Len(kws) :
        officer.title # None /\ Contains(kws[k], Lower(officer.title[1]))

HoursAtLeast30(officer) ==
    /\ officer.hours_per_week # None
    /\ ParseFloat(officer.hours_per_week[1]) # None
    /\ ParseFloat(officer.hours_per_week[1])[1] >= 30

Paid(officer) == officer.compensation # None /\ officer.compensation[1] > 0

ExpectedScore(officer) ==
    (IF AnyKeyword(fundraising_kw, officer) THEN 10 ELSE 0)
    + (IF AnyKeyword(leadership_kw, officer) THEN 5 ELSE 0)
    + (IF Paid(officer) THEN 3 ELSE 0)
    + (IF HoursAtLeast30(officer) THEN 2 ELSE 0)

\* C9: the relevance score of an officer is 10 if any fundraising keyword
\* occurs in the lowercased title, plus 5 if any leadership keyword occurs,
\* plus 3 if compensation > 0, plus 2 if hours_per_week parses as a number
\* >= 30; each category counts once however many keywords match, so the
\* score never exceeds 20, and "Chief Development Officer" with
\* compensation > 0 and hours >= 30 scores exactly 20.  (An officer whose
\* score is 0 is given no relevance_score.)
C9_RelevanceScore ==
    ContactsDone =>
        \A i \in 1..Len(call.officers) :
            LET o == call.officers[i]
            IN  /\ KeyScore(o) = ExpectedScore(o)
                /\ KeyScore(o) <= 20
                /\ (/\ o.title = Some(TitleChiefDevelopmentOfficer)
                    /\ Paid(o)
                    /\ HoursAtLeast30(o)) => o.relevance_score = Some(20)

\* A paid, full-time "Chief Development Officer", whose title matches more
\* than one keyword of each category, has been scored 20.
C9_Witness ==
    /\ ContactsDone
    /\ \E i \in 1..Len(call.officers) :
        LET o == call.officers[i]
        IN  /\ o.title = Some(TitleChiefDevelopmentOfficer)
            /\ Paid(o)
            /\ HoursAtLeast30(o)
            /\ Cardinality({k \in 1..Len(fundraising_kw) :
                               Contains(fundraising_kw[k], Lower(o.title[1]))}) > 1
            /\ o.relevance_score = Some(20)

Returned == {call.ret[i].name : i \in 1..Len(call.ret)}

\* a is ranked no higher than b by (score, compensation); an officer
\* without a compensation counts as paid 0.
RankedNoHigher(a, b) ==
    \/ ExpectedScore(a) < ExpectedScore(b)
    \/ /\ ExpectedScore(a) = ExpectedScore(b)
       /\ KeyCompensation(a) <= KeyCompensation(b)

\* C10: filter_fundraising_contacts returns at most 4 officers, none with
\* score 0, ordered by descending score with descending compensation as the
\* tie-break among equal scores; every officer left out has score 0 or is
\* ranked no higher by (score, compensation) than every officer returned.
C10_TopFour ==
    ContactsDone =>
        /\ Len(call.ret) <= 4
        /\ \A i \in 1..Len(call.ret) :
            /\ ExpectedScore(call.ret[i]) > 0
            /\ \E k \in 1..Len(call.officers) : call.officers[k] = call.ret[i]
        /\ \A i, j \in 1..Len(call.ret) :
            i < j => /\ call.ret[i].name # call.ret[j].name
                     /\ RankedNoHigher(call.ret[j], call.ret[i])
        /\ \A k \in 1..Len(call.officers) :
            call.officers[k].name \notin Returned =>
                \/ ExpectedScore(call.officers[k]) = 0
                \/ \A i \in 1..Len(call.ret) :
                       RankedNoHigher(call.officers[k], call.ret[i])

\* Five officers, all scored: four are returned, the one left out has a
\* positive score, and two returned officers that tie on score stand in
\* descending compensation although the input had them the other way round.
C10_Witness ==
    /\ ContactsDone
    /\ Len(call.officers) = 5
    /\ Len(call.ret) = 4
    /\ \E k \in 1..Len(call.officers) :
        /\ call.officers[k].name \notin Returned
        /\ ExpectedScore(call.officers[k]) > 0
    /\ \E i \in 1..3 :
        /\ ExpectedScore(call.ret[i]) = ExpectedScore(call.ret[i + 1])
        /\ KeyCompensation(call.ret[i]) > KeyCompensation(call.ret[i + 1])
        /\ \E k, m \in 1..Len(call.officers) :
            /\ k < m
            /\ call.officers[k] = call.ret[i + 1]
            /\ call.officers[m] = call.ret[i]

(***************************************************************************)
(* The search calls of a run (specification Spec).                         *)
(***************************************************************************)
\* The step calls the search endpoint.
SearchCall == searches'.count = searches.count + 1

\* C14: the too-many-API-errors warning is raised when, and only when, five
\* search calls in a row have returned an error: a successful page between
\* errors resets the count, so errors separated by successful pages do not
\* add up to the threshold; and raising it does not stop the run.
C14_FiveErrorsInARow ==
    [][SearchCall =>
          /\ (warned' /\ ~warned) => searches'.errors_in_a_row >= 5
          /\ searches'.errors_in_a_row >= 5 => warned'
          /\ (warned' /\ ~warned) => pc' = "search"]_vars

\* C18: the search pages requested in a run never exceed the configured
\* max search pages, for the built-in keyword list and for a single user
\* keyword; within a keyword the pages are requested in increasing order
\* from 0 without gaps, at most max(1, floor(max_pages / number of
\* keywords)) of them.
C18_PageBudget ==
    LET nkeywords == IF cfg.search_query # "" THEN 1 ELSE Len(BROAD_SEARCH_KEYWORDS)
        budget == IF cfg.max_pages \div nkeywords >= 1
                  THEN cfg.max_pages \div nkeywords ELSE 1
    IN  /\ searches.count <= cfg.max_pages
        /\ searches.pages = [i \in 1..Len(searches.pages) |-> i - 1]
        /\ Len(searches.pages) <= budget

(***************************************************************************)
(* The revenue fallbacks (specification SpecRevenue).                      *)
(***************************************************************************)
\* The value of the first of the three fields that is present and not null.
FirstPresent(filing) ==
    IF filing.totrevenue # None THEN filing.totrevenue[1]
    ELSE IF filing.totrevnue # None THEN filing.totrevnue[1]
    ELSE IF filing.totrcptperbks # None THEN filing.totrcptperbks[1]
    ELSE 0

\* C17: check_revenue takes the revenue from the first element of the
\* filings list and returns the value of the first of totrevenue,
\* totrevnue, totrcptperbks that is present and non-null, a present 0
\* included, and 0 only when none of the three is present.
C17_FirstPresentField ==
    (call.fn = "check_revenue" /\ call.done /\ HasAFiling(call.org_data)) =>
        call.ret.revenue = FirstPresent(call.org_data.filings[1])

(***************************************************************************)
(* The memoized fetchers api_get and fetch_xml (specification SpecFetch).  *)
(*                                                                         *)
(* A call is given the answers of the upstream to the requests it may      *)
(* issue, one per attempt.  The log of a call lists its requests in order, *)
(* each with the answer it got and the seconds slept because of it.  The   *)
(* pacing sleep before each request (lines 53, 71) is not part of the log. *)
(***************************************************************************)
\* Answers to a request: status 200 with a usable body, status 200 with a
\* body the function does not accept (resp.json() raises, line 57; a body
\* that starts with "Error 429" or "<html", line 78), status 429, another
\* status, and an exception raised by requests.get.
Outcomes == {"200", "200 unusable", "429", "other", "exception"}

Content == Some("content")

\* range(3) and range(4)   (lines 51, 69)
AttemptCap(fn) == IF fn = "api_get" THEN 3 ELSE 4

\* 10 * (attempt + 1) and 15 * (attempt + 1)   (lines 59, 79, 83)
BackoffBase(fn) == IF fn = "api_get" THEN 10 ELSE 15

\* Mutant: the backoff multiplies by the 0-based loop index.
Backoff_ZeroBased(fn, attempt) == BackoffBase(fn) * attempt

Backoff(fn, attempt) == BackoffBase(fn) * (attempt + 1)

\* Mutant: an exception ends the call of api_get, another status makes
\* fetch_xml retry.
EndsCall_PerEndpoint(fn, outcome) ==
    \/ outcome = "200"
    \/ fn = "api_get" /\ outcome \in {"other", "exception"}

\* The answers on which the function returns: 200 with a usable body
\* (lines 56-57, 74-81) and a status other than 200 and 429 (lines 60-61,
\* 84-85).
EndsCall(fn, outcome) == outcome \in {"200", "other"}

\* The seconds slept on an answer that does not end the call: the backoff on
\* 429 (lines 59, 83), on an unusable document body (line 79), and 5 in the
\* except branch (lines 62-63, 86-87), which an unusable JSON body also
\* reaches.
SleepAfter(fn, outcome, attempt) ==
    IF outcome = "429" THEN Backoff(fn, attempt)
    ELSE IF outcome = "200 unusable" /\ fn = "fetch_xml" THEN Backoff(fn, attempt)
    ELSE 5

\* The for loop of api_get and of fetch_xml, from `attempt` on.
RECURSIVE FetchLoop(_, _, _, _)
FetchLoop(fn, outcomes, attempt, sofar) ==
    IF attempt >= AttemptCap(fn) THEN [ret |-> None, log |-> sofar]
    ELSE LET outcome == outcomes[attempt + 1]
         IN  IF EndsCall(fn, outcome)
             THEN [ret |-> IF outcome = "200" THEN Content ELSE None,
                   log |-> Append(sofar, [outcome |-> outcome, slept |-> 0])]
             ELSE FetchLoop(fn, outcomes, attempt + 1,
                            Append(sofar, [outcome |-> outcome,
                                         slept |-> SleepAfter(fn, outcome,
                                                              attempt)]))

\* @st.cache_data(ttl=3600): the value a call returns is stored under its
\* arguments, whatever the value.
Memoize(cache, fn, ret) == [cache EXCEPT ![fn] = Some(ret)]

FetchInit == IdleRun /\ call = NoCall

\* A call of fn with arguments that are memoized: the stored value is
\* returned and the body does not run.
CallMemoized(fn) ==
    /\ net.cache[fn] # None
    /\ net' = [net EXCEPT !.last = [fn |-> fn, from_cache |-> TRUE,
                                    ret |-> net.cache[fn][1], log |-> <<>>]]
    /\ UNCHANGED <<loopVars, call>>

\* A call of fn with arguments that are not memoized: the body runs against
\* the upstream and its return value is stored.
CallUpstream(fn) ==
    /\ net.cache[fn] = None
    /\ \E outcomes \in [1..AttemptCap(fn) -> Outcomes] :
        LET r == FetchLoop(fn, outcomes, 0, <<>>)
        IN  net' = [cache |-> Memoize(net.cache, fn, r.ret),
                    last |-> [fn |-> fn, from_cache |-> FALSE, ret |-> r.ret,
                              log |-> r.log]]
    /\ UNCHANGED <<loopVars, call>>

\* More than ttl seconds have passed since the value was stored.
Expire(fn) ==
    /\ net.cache[fn] # None
    /\ net' = [net EXCEPT !.cache[fn] = None, !.last = NoFetch]
    /\ UNCHANGED <<loopVars, call>>

FetchNext ==
    \E fn \in FetchFns :
        \/ CallMemoized(fn)
        \/ CallUpstream(fn)
        \/ Expire(fn)

SpecFetch == FetchInit /\ [][FetchNext]_vars

\* C13: for every sequence of upstream outcomes, one api_get call issues at
\* most 3 requests and one fetch_xml call at most 4, the call returns
\* either content or the failure value, and after the k-th attempt ends in
\* HTTP 429 the call sleeps backoff_base * k seconds (10 for JSON, 15 for
\* documents) before the next attempt.
C13_BoundedRetries ==
    LET c == net.last
    IN  /\ c.fn = "api_get" => Len(c.log) <= 3
        /\ c.fn = "fetch_xml" => Len(c.log) <= 4
        /\ c.ret \in {<<>>, <<"content">>}
        /\ \A k \in 1..Len(c.log) :
            c.log[k].outcome = "429" =>
                /\ c.fn = "api_get" => c.log[k].slept = 10 * k
                /\ c.fn = "fetch_xml" => c.log[k].slept = 15 * k

\* A fetch_xml call whose four attempts all end in 429: four requests, the
\* sleeps 15, 30, 45, 60, and the failure value.
C13_Witness ==
    /\ net.last.fn = "fetch_xml"
    /\ ~net.last.from_cache
    /\ Len(net.last.log) = 4
    /\ \A k \in 1..4 : net.last.log[k] = [outcome |-> "429", slept |-> 15 * k]
    /\ net.last.ret = <<>>

\* C15: a fetch that ends in failure is a failure for that call only: a
\* later call with the same arguments inside the memoization window issues
\* new requests rather than returning the remembered failure; only
\* successful results are served from the cache without a network call.
C15_FailuresNotRemembered ==
    net.last.fn # "none" =>
        /\ net.last.from_cache => net.last.ret # <<>>
        /\ net.last.log = <<>> => net.last.from_cache

\* C16 as stated: on api_get another status or a transport failure ends
\* the call with the failure value and no further request; on fetch_xml
\* the same events make the call sleep a fixed interval and retry, up to
\* its attempt cap.
C16_Original ==
    LET c == net.last
    IN  \A k \in 1..Len(c.log) :
            c.log[k].outcome \in {"other", "exception"} =>
                /\ c.fn = "api_get" => k = Len(c.log) /\ c.ret = <<>>
                /\ c.fn = "fetch_xml" =>
                    /\ c.log[k].slept = 5
                    /\ k < 4 => Len(c.log) > k

\* C16 (amended): on both paths a status other than 200 and 429 ends the
\* call with the failure value and no further request, and a transport
\* failure makes the call sleep a fixed interval (5 seconds) and retry, up
\* to its attempt cap (3 for api_get, 4 for fetch_xml).
C16_SamePolicyOnBothPaths ==
    LET c == net.last
        cap == IF c.fn = "api_get" THEN 3 ELSE 4
    IN  \A k \in 1..Len(c.log) :
            /\ c.log[k].outcome = "other" =>
                k = Len(c.log) /\ c.ret = <<>> /\ c.log[k].slept = 0
            /\ c.log[k].outcome = "exception" =>
                /\ c.log[k].slept = 5
                /\ k < cap => Len(c.log) > k
                /\ k = cap => Len(c.log) = k /\ c.ret = <<>>

\* An api_get call that meets a transport failure, sleeps 5 seconds and
\* succeeds at its second request.
C16_Witness ==
    /\ net.last.fn = "api_get"
    /\ Len(net.last.log) = 2
    /\ net.last.log[1] = [outcome |-> "exception", slept |-> 5]
    /\ net.last.log[2].outcome = "200"
    /\ net.last.ret = <<"content">>

(***************************************************************************)
(* Enrichment and the contacts phase (specification SpecEnrich).           *)
(*                                                                         *)
(* Names are sequences of one-character strings, as titles are.            *)
(***************************************************************************)
MaxFiled == 4         \* officers extracted from one filing
PerPage == 5          \* "per_page": 5, the most people one response holds

\* str.strip() on a sequence of characters.
RECURSIVE StripLeft(_)
StripLeft(chars) ==
    IF chars # <<>> /\ Head(chars) = " " THEN StripLeft(Tail(chars)) ELSE chars

RECURSIVE StripRight(_)
StripRight(chars) ==
    IF chars # <<>> /\ chars[Len(chars)] = " "
    THEN StripRight(SubSeq(chars, 1, Len(chars) - 1))
    ELSE chars

StripChars(chars) == StripRight(StripLeft(chars))

\* A person of the response: person.get('first_name', ''),
\* person.get('last_name', '').
Person(first_name, last_name) ==
    [first_name |-> first_name, last_name |-> last_name]

\* f"{first_name} {last_name}".strip()
ResolvedName(person) ==
    StripChars(person.first_name \o <<" ">> \o person.last_name)

\* The contact built for a person (lines 429-439).
ApolloContact(person) ==
    [name |-> ResolvedName(person), title |-> Some(<<>>),
     compensation |-> Some(0), hours_per_week |-> Some(""),
     relevance_score |-> Some(8), source |-> Some("Apollo.io")]

\* for person in people[:4]: ... if contact["name"]: contacts.append(contact)
RECURSIVE ContactsOf(_, _)
ContactsOf(people, i) ==
    IF i > Len(people) \/ i > 4 THEN <<>>
    ELSE (IF ResolvedName(people[i]) # <<>>
          THEN <<ApolloContact(people[i])>> ELSE <<>>)
         \o ContactsOf(people, i + 1)

\* Answers of the people search: an exception of the request, a status
\* other than 200, a 200 whose body is not JSON, a 200 without "people",
\* and a 200 with a list of people.
NoPeople == {[kind |-> k, people |-> <<>>] :
                k \in {"exception", "other", "200 unusable", "200 no key"}}

People(people) == [kind |-> "200", people |-> people]

apollo_search_contacts(apollo_key, upstream) ==
    IF apollo_key = "" THEN <<>>
    ELSE IF upstream.kind # "200" THEN <<>>
    ELSE ContactsOf(upstream.people, 1)

\* Mutant: names are compared as they are written.
NameKey_AsWritten(name) == name

\* c.get("name", "").lower()
NameKey(name) == Lower(name)

\* for ac in apollo_contacts: append ac unless its lowercased name is the
\* lowercased name of a contact already in the list (lines 808-812).
RECURSIVE MergeContacts(_, _, _)
MergeContacts(contacts, apollo_contacts, i) ==
    IF i > Len(apollo_contacts) THEN contacts
    ELSE LET ac == apollo_contacts[i]
             existing_names == {NameKey(contacts[k].name) : k \in 1..Len(contacts)}
         IN  MergeContacts(IF NameKey(ac.name) \notin existing_names
                           THEN Append(contacts, ac) ELSE contacts,
                           apollo_contacts, i + 1)

\* Mutant: the merged list is not cut.
KeepTop_Not(contacts) == contacts

\* contacts[:4]   (line 815)
KeepTop(contacts) ==
    IF Len(contacts) > 4 THEN SubSeq(contacts, 1, 4) ELSE contacts

\* "Jane Doe"
FirstJaneDoe == <<"J", "a", "n", "e">>
LastJaneDoe == <<"D", "o", "e">>
NameJaneDoe == FirstJaneDoe \o <<" ">> \o LastJaneDoe

\* "jane doe"
FirstJaneDoeLower == <<"j", "a", "n", "e">>
LastJaneDoeLower == <<"d", "o", "e">>
NameJaneDoeLower == FirstJaneDoeLower \o <<" ">> \o LastJaneDoeLower

\* "Cy Ng"
FirstCyNg == <<"C", "y">>
LastCyNg == <<"N", "g">>
NameCyNg == FirstCyNg \o <<" ">> \o LastCyNg

\* "Di Po"
FirstDiPo == <<"D", "i">>
LastDiPo == <<"P", "o">>
NameDiPo == FirstDiPo \o <<" ">> \o LastDiPo

\* "Al Roe"
FirstAlRoe == <<"A", "l">>
LastAlRoe == <<"R", "o", "e">>
NameAlRoe == FirstAlRoe \o <<" ">> \o LastAlRoe

FirstRaj == <<"R", "a", "j">>

\* The officers of the filings: two that score, by different amounts.
FiledKinds ==
    {Officer(NameJaneDoe, Some(TitleChiefDevelopmentOfficer), Some(150000),
             Some("40")),
     Officer(NameAlRoe, Some(TitleDirectorUpper), Some(90000), None)}

\* The people of a response to the contacts phase: one whose name differs
\* from a filed officer's by case only, two that differ from each other by
\* case only, one more, and one without a name.
PhasePeople ==
    {Person(FirstJaneDoeLower, LastJaneDoeLower), Person(FirstCyNg, LastCyNg),
     Person(Lower(FirstCyNg), Lower(LastCyNg)), Person(FirstDiPo, LastDiPo),
     Person(<<>>, <<>>)}

\* A response lists a person once.
PhaseResponses ==
    {ps \in SeqsOf(PhasePeople, 0, PerPage) :
        \A i, j \in 1..Len(ps) : i # j => ps[i] # ps[j]}

\* The people of a response to apollo_search_contacts on its own: with both
\* names, with a first name only, and without a name.
SearchPeople ==
    {Person(FirstCyNg, LastCyNg), Person(FirstDiPo, LastDiPo),
     Person(FirstRaj, <<>>), Person(<<>>, <<>>)}

\* The contacts of one charity (lines 795-816), from the officers that
\* extract_officers_from_xml found and the answer of the people search.
contacts_phase(officers, use_apollo, apollo_key, upstream) ==
    LET filtered_990 == filter_fundraising_contacts(officers)
        apollo_contacts == IF use_apollo
                           THEN apollo_search_contacts(apollo_key, upstream)
                           ELSE <<>>
    IN  [filtered_990 |-> filtered_990,
         apollo_contacts |-> apollo_contacts,
         contacts |-> KeepTop(MergeContacts(filtered_990, apollo_contacts, 1))]

NoPhase == [filtered_990 |-> <<>>, apollo_contacts |-> <<>>, contacts |-> <<>>]

EnrichInit ==
    /\ IdleRun
    /\ call \in
        {[fn |-> "apollo_search_contacts", apollo_key |-> k, upstream |-> u,
          done |-> FALSE, ret |-> <<>>] :
            k \in {"", "key"},
            u \in NoPeople \cup {People(ps) : ps \in SeqsOf(SearchPeople, 0, PerPage)}}
        \cup
        {[fn |-> "contacts_phase", officers |-> os, use_apollo |-> TRUE,
          upstream |-> People(ps), done |-> FALSE, ret |-> NoPhase] :
            os \in SeqsOf(FiledKinds, 0, MaxFiled), ps \in PhaseResponses}
        \cup
        {[fn |-> "contacts_phase", officers |-> os, use_apollo |-> FALSE,
          upstream |-> People(<<>>), done |-> FALSE, ret |-> NoPhase] :
            os \in SeqsOf(FiledKinds, 0, MaxFiled)}

CallApolloSearch ==
    /\ call.fn = "apollo_search_contacts"
    /\ ~call.done
    /\ call' = [call EXCEPT !.done = TRUE,
                            !.ret = apollo_search_contacts(call.apollo_key,
                                                           call.upstream)]
    /\ UNCHANGED runVars

\* One iteration of the loop over the charities (lines 791-816).
ContactsPhase ==
    /\ call.fn = "contacts_phase"
    /\ ~call.done
    /\ call' = [call EXCEPT !.done = TRUE,
                            !.ret = contacts_phase(call.officers, call.use_apollo,
                                                   "key", call.upstream)]
    /\ UNCHANGED runVars

EnrichNext ==
    \/ CallApolloSearch
    \/ ContactsPhase

SpecEnrich == EnrichInit /\ [][EnrichNext]_vars

ApolloDone == call.fn = "apollo_search_contacts" /\ call.done

\* The people of the response whose resolved name is not empty.
NamedPeople(people) == SelectSeq(people, LAMBDA p : ResolvedName(p) # <<>>)

\* C19: apollo_search_contacts returns, in response order, the first 4
\* people among those whose resolved name is non-empty (5 people of whom
\* only the first has an empty name give 4 contacts); every returned
\* contact has relevance score 8; a transport or parsing failure or an
\* absent key gives an empty list.
C19_FirstFourNamed ==
    ApolloDone =>
        /\ (call.apollo_key # "" /\ call.upstream.kind = "200") =>
            LET named == NamedPeople(call.upstream.people)
                n == IF Len(named) > 4 THEN 4 ELSE Len(named)
            IN  /\ Len(call.ret) = n
                /\ \A i \in 1..n : call.ret[i].name = ResolvedName(named[i])
        /\ \A i \in 1..Len(call.ret) : call.ret[i].relevance_score = Some(8)
        /\ (call.apollo_key = "" \/ call.upstream.kind # "200") => call.ret = <<>>

PhaseDone == call.fn = "contacts_phase" /\ call.done

\* The elements of seq from index i on whose index is in keep, in order.
RECURSIVE Restrict(_, _, _)
Restrict(seq, keep, i) ==
    IF i > Len(seq) THEN <<>>
    ELSE (IF i \in keep THEN <<seq[i]>> ELSE <<>>) \o Restrict(seq, keep, i + 1)

\* The enrichment contacts that duplicate neither a Form-filing contact nor
\* an earlier enrichment contact, names compared in lowercase.
NonDuplicates(filed, enrichment) ==
    Restrict(enrichment,
             {i \in 1..Len(enrichment) :
                 /\ \A k \in 1..Len(filed) :
                        Lower(filed[k].name) # Lower(enrichment[i].name)
                 /\ \A j \in 1..(i - 1) :
                        Lower(enrichment[j].name) # Lower(enrichment[i].name)},
             1)

\* C11: the final contact list of an organization is the first 4 entries of
\* the ranked Form-filing contacts followed by the non-duplicate enrichment
\* contacts in response order: the cut to 4 comes after combining, so 3
\* Form-filing contacts plus 3 enrichment contacts with no name overlap
\* give exactly 4 (the 3 Form-filing ones, then the first enrichment one),
\* and the stored list never has more than 4 entries.
C11_MergeThenTruncate ==
    PhaseDone =>
        LET filed == call.ret.filtered_990
            enrichment == call.ret.apollo_contacts
            combined == filed \o NonDuplicates(filed, enrichment)
        IN  /\ Len(call.ret.contacts) <= 4
            /\ call.ret.contacts =
                 IF Len(combined) > 4 THEN SubSeq(combined, 1, 4) ELSE combined
            /\ (/\ Len(filed) = 3
                /\ Len(NonDuplicates(filed, enrichment)) = 3)
               => call.ret.contacts = filed \o <<enrichment[1]>>

\* Three Form-filing contacts and three enrichment contacts, none a
\* duplicate: four contacts are stored, the fourth the first enrichment one.
C11_Witness ==
    /\ PhaseDone
    /\ Len(call.ret.filtered_990) = 3
    /\ Len(call.ret.apollo_contacts) = 3
    /\ Len(NonDuplicates(call.ret.filtered_990, call.ret.apollo_contacts)) = 3
    /\ Len(call.ret.contacts) = 4
    /\ call.ret.contacts[4] = call.ret.apollo_contacts[1]
    /\ call.ret.contacts[4].source = Some("Apollo.io")

FromEnrichment(contact) == contact.source = Some("Apollo.io")

\* C12: an enrichment contact is appended only if no contact already in the
\* list, Form-filing-derived or an earlier appended enrichment contact, has
\* the same name compared case-insensitively: "Jane Doe" from the filings
\* and "jane doe" from the enrichment give one entry, the Form-filing one.
C12_CaseInsensitiveDedup ==
    PhaseDone =>
        LET contacts == call.ret.contacts
        IN  /\ \A i, j \in 1..Len(contacts) :
                (i < j /\ FromEnrichment(contacts[j])) =>
                    Lower(contacts[i].name) # Lower(contacts[j].name)
            /\ (\E k \in 1..Len(call.ret.filtered_990) :
                    call.ret.filtered_990[k].name = NameJaneDoe) =>
                  \A j \in 1..Len(contacts) :
                      FromEnrichment(contacts[j]) =>
                          contacts[j].name # NameJaneDoeLower

\* "Jane Doe" was filed and "jane doe" came first in the response: the list
\* has room left, holds another enrichment contact, and holds the name
\* once, from the filing.
C12_Witness ==
    /\ PhaseDone
    /\ Len(call.ret.apollo_contacts) >= 2
    /\ call.ret.apollo_contacts[1].name = NameJaneDoeLower
    /\ Len(call.ret.contacts) < 4
    /\ \E j \in 1..Len(call.ret.contacts) : FromEnrichment(call.ret.contacts[j])
    /\ Cardinality({j \in 1..Len(call.ret.contacts) :
                       Lower(call.ret.contacts[j].name) = NameJaneDoeLower}) = 1
    /\ \E j \in 1..Len(call.ret.contacts) :
        /\ call.ret.contacts[j].name = NameJaneDoe
        /\ call.ret.contacts[j].source = Some("Form 990")
==========================================================================
